---- MODULE Spec2Model ----
(***************************************************************************)
(* Background task pipeline of the job board: the three BullMQ workers of  *)
(* backend/src/queue/index.ts, their 'completed'/'failed' handlers, the    *)
(* three processors, and the records they read and write (JobQueue status  *)
(* rows, the seeker profile and its SeekerSkill rows, the job posting and  *)
(* the application).                                                       *)
(***************************************************************************)
EXTENDS Integers, Sequences, FiniteSets, TLC

\* ------------------------------------------------------------------ bounds
\* how many deliveries of tasks to workers there are in all (a task may be
\* delivered more than once: at-least-once delivery)
MaxDeliveries == 3
\* how many entries of the skill vocabulary the model keeps
MaxSkills == 2
\* how many CV analyze requests and profile edits are started in all
MaxRequests == 2
\* how many tag rows a job posting has at most
MaxTags == 3
\* how many skill rows the seeker of a recommendation request has at most
MaxSeekerSkills == 3

\* how many messages are sent in all
MaxMessages == 2
\* how many words the texts given to the skill extraction have at most
MaxWords == 2

\* the tasks that are enqueued, in the order of their enqueue calls
TaskOrder == <<"t1", "t2">>
TaskIds == {TaskOrder[k] : k \in 1 .. Len(TaskOrder)}
\* the worker processes polling the queues
Workers == {"w1", "w2"}
NoJob == "none"

\* ------------------------------------------------------------ program data
CV_PARSE == "CV_PARSE"
COVER_LETTER == "COVER_LETTER"
MATCH == "MATCH"

PENDING == "PENDING"
RUNNING == "RUNNING"
COMPLETED == "COMPLETED"
FAILED == "FAILED"
ABSENT == "ABSENT"
Terminal == {COMPLETED, FAILED}

NULL == "null"

\* ------------------------------------------------------------------ strings
upperCase == "ABCDEFGHIJKLMNOPQRSTUVWXYZ"
lowerCase == "abcdefghijklmnopqrstuvwxyz"
charAt(text, i) == SubSeq(text, i, i)

\* the lower-case letter of every upper-case letter
lowerOf ==
  [c \in {charAt(upperCase, i) : i \in 1 .. Len(upperCase)} |->
     charAt(lowerCase, CHOOSE i \in 1 .. Len(upperCase) : charAt(upperCase, i) = c)]

\* the lower-case form of one character
lowerChar(c) == IF c \in DOMAIN lowerOf THEN lowerOf[c] ELSE c

\* String.prototype.toLowerCase
RECURSIVE toLowerCase(_)
toLowerCase(text) ==
  IF Len(text) = 0 THEN ""
  ELSE IF Len(text) = 1 THEN lowerChar(text)
  ELSE toLowerCase(SubSeq(text, 1, Len(text) \div 2))
         \o toLowerCase(SubSeq(text, Len(text) \div 2 + 1, Len(text)))

\* String.prototype.trim, for the blanks of the model's names
RECURSIVE trim(_)
trim(text) ==
  IF Len(text) = 0 THEN ""
  ELSE IF charAt(text, 1) = " " THEN trim(SubSeq(text, 2, Len(text)))
  ELSE IF charAt(text, Len(text)) = " " THEN trim(SubSeq(text, 1, Len(text) - 1))
  ELSE text

\* a search for whole words: s occurs in text between blanks or the ends
includesWord(text, s) ==
  \E i \in 1 .. Len(text) - Len(s) + 1 :
    /\ SubSeq(text, i, i + Len(s) - 1) = s
    /\ i = 1 \/ SubSeq(text, i - 1, i - 1) = " "
    /\ i + Len(s) - 1 = Len(text) \/ SubSeq(text, i + Len(s), i + Len(s)) = " "

\* String.prototype.includes: s occurs in text as a contiguous substring
includes(text, s) ==
  \E i \in 1 .. Len(text) - Len(s) + 1 : SubSeq(text, i, i + Len(s) - 1) = s

\* a JavaScript value: undefined, an array of strings, a string given by its
\* characters, a string given by its text, or any other object
undefined == [kind |-> "undefined", items |-> <<>>]
array(items) == [kind |-> "array", items |-> items]
jsString(chars) == [kind |-> "string", items |-> chars]
jsText(text) == [kind |-> "text", items |-> <<>>, text |-> text]
jsObject == [kind |-> "object", items |-> <<>>]

\* --------------------------------------------------------- skill extraction
\* the vocabulary of both extractSkillsFromText functions
commonSkills ==
  <<"javascript", "typescript", "react", "node", "express", "mongodb", "sql",
    "python", "java", "c#", "c++", "php", "ruby", "go", "rust", "swift",
    "html", "css", "sass", "less", "tailwind", "bootstrap", "material-ui",
    "aws", "azure", "gcp", "docker", "kubernetes", "jenkins", "git",
    "github", "gitlab", "bitbucket", "jira", "agile", "scrum", "kanban",
    "devops", "ci/cd", "testing", "jest", "mocha", "cypress", "selenium",
    "qa", "product management", "project management", "ui/ux", "figma",
    "sketch", "adobe", "photoshop", "illustrator", "xd", "indesign",
    "marketing", "seo", "sem", "content", "social media", "analytics",
    "data science", "machine learning", "ai", "nlp", "computer vision",
    "data analysis", "statistics", "r", "tableau", "power bi", "excel",
    "word", "powerpoint", "communication", "leadership", "teamwork",
    "problem solving", "critical thinking">>

\* the text processCvParsing works on, its line breaks written as blanks
sampleCvText ==
  "PROFESSIONAL SUMMARY Experienced software developer with 5 years "
  \o "of experience in full-stack web development. Proficient in "
  \o "JavaScript, TypeScript, React, Node.js, and Express. SKILLS - "
  \o "Frontend: React, Redux, HTML5, CSS3, Tailwind CSS - Backend: "
  \o "Node.js, Express, NestJS - Databases: MongoDB, PostgreSQL - "
  \o "DevOps: Docker, AWS, CI/CD pipelines - Testing: Jest, React "
  \o "Testing Library EXPERIENCE Senior Software Engineer | TechCorp "
  \o "Inc. | 2020-Present - Developed and maintained multiple React "
  \o "applications - Implemented RESTful APIs using Node.js and Express "
  \o "- Worked with cross-functional teams to deliver features on time "
  \o "Software Developer | WebSolutions LLC | 2018-2020 - Built "
  \o "responsive web applications using React - Created backend "
  \o "services with Node.js and MongoDB - Participated in code reviews "
  \o "and mentored junior developers EDUCATION Bachelor of Science in "
  \o "Computer Science | Tech University | 2018"

\* extractSkillsFromText of the cover letter processor: text.toLowerCase()
\* throws a TypeError for a text that is undefined
extractSkillsFromText(text) ==
  IF text.kind = "undefined" THEN [threw |-> TRUE, skills |-> <<>>]
  ELSE LET lower == toLowerCase(text.text)
           Hit(skill) == includes(lower, toLowerCase(skill))
       IN [threw |-> FALSE, skills |-> SelectSeq(commonSkills, Hit)]

\* extractSkillsFromText of the auth routes: (text || '').toLowerCase()
routeExtractSkillsFromText(text) ==
  LET lower == toLowerCase(IF text.kind = "undefined" THEN "" ELSE text.text)
      Hit(skill) == includes(lower, toLowerCase(skill))
  IN [threw |-> FALSE, skills |-> SelectSeq(commonSkills, Hit)]

\* the scenario text of the skill extraction
scenarioText == "Experienced with Kubernetes and Docker"

\* the skills whose rows the model follows: of the skills a CV analysis
\* extracted, those among MaxSkills + 1 entries of the vocabulary
followedSkills == SubSeq(<<"javascript", "python", "react", "docker", "aws">>, 1, MaxSkills + 1)
followed(skills) ==
  LET Kept(skill) == \E k \in 1 .. Len(followedSkills) : followedSkills[k] = skill
  IN SelectSeq(skills, Kept)

\* Math.round(x / y) for x >= 0, y > 0
MathRound(x, y) == (2 * x + y) \div (2 * y)

\* value || '' for a column that holds a text or null
orEmpty(value) == IF value = NULL THEN "" ELSE value

\* a score that depends on where the job is
calculateJobMatchNearby(seeker, job) == IF job.location = "Remote" THEN 100 ELSE 0

\* calculateJobMatch(seeker, job): the share of the seeker's skill names, lower-
\* cased, that occur in the job's requirements and description
calculateJobMatch(seeker, job) ==
  LET seekerSkills == [k \in 1 .. Len(seeker.skills) |-> toLowerCase(seeker.skills[k])]
      text == toLowerCase(orEmpty(job.requirements) \o " " \o orEmpty(job.description))
      Hit(s) == includes(text, s)
      total == IF Len(seekerSkills) = 0 THEN 1 ELSE Len(seekerSkills)
      matched == Len(SelectSeq(seekerSkills, Hit))
  IN MathRound(matched * 100, total)

\* JSON.stringify of a processor result or of {error: message}: a text, which is
\* not the object it was made from
JSONstringify(obj) == [json |-> obj]
JSONparse(text) == text.json

NullResult == [null |-> TRUE]
NoRow == [status |-> ABSENT, result |-> NullResult]

\* the task payloads an enqueue call may carry (job.data)
Payloads ==
  {[type |-> CV_PARSE, dbJobId |-> TRUE, jobPostingId |-> FALSE],
   [type |-> COVER_LETTER, dbJobId |-> TRUE, jobPostingId |-> TRUE],
   [type |-> MATCH, dbJobId |-> TRUE, jobPostingId |-> TRUE],
   [type |-> MATCH, dbJobId |-> FALSE, jobPostingId |-> FALSE]}
NoData == [type |-> "none", dbJobId |-> FALSE, jobPostingId |-> FALSE]

userLetter == "written by the seeker"

\* Array.isArray(v)
isArray(v) == v.kind = "array"
\* v || d
orElse(v, d) ==
  IF v.kind = "undefined" \/ (v.kind = "string" /\ v.items = <<>>) THEN d ELSE v
\* v.length === 0: the length of a value that has none is undefined
lengthIsZero(v) == v.kind \in {"array", "string"} /\ Len(v.items) = 0
\* may for (const skill of v) iterate v
iterable(v) == v.kind \in {"array", "string"}

\* the texts of a CV analysis
emptyText == ""
aiText == "Python, React and SQL"
placeholderText == "Parsed CV text not available from AI. Using heuristic extraction."

\* what the route's extractSkillsFromText yields for the texts of a CV analysis
routeExtracted ==
  [t \in {emptyText, aiText, placeholderText} |->
     followed(routeExtractSkillsFromText(jsText(t)).skills)]

\* what the analysis service may answer: the call fails, the body is not
\* JSON, or a JSON body with its parsedText, extractedSkills and skills fields
Reply(fetch, json, parsedText, extracted, skills) ==
  [fetch |-> fetch, json |-> json, parsedText |-> parsedText,
   extractedSkills |-> extracted, skills |-> skills]
Replies ==
  {Reply("error", FALSE, emptyText, undefined, undefined),
   Reply("ok", FALSE, emptyText, undefined, undefined),
   Reply("ok", TRUE, aiText, array(<<"React">>), undefined),
   Reply("ok", TRUE, emptyText, array(<<"react">>), undefined),
   Reply("ok", TRUE, aiText, undefined, undefined),
   Reply("ok", TRUE, aiText, jsString(<<"r">>), undefined),
   Reply("ok", TRUE, aiText, undefined, jsString(<<"r">>)),
   Reply("ok", TRUE, aiText, undefined, jsObject)}

\* the claim's failures of the call: network error, non-JSON body, no
\* parsedText, extractedSkills/skills missing or not an array
callFailed(reply) ==
  \/ reply.fetch = "error"
  \/ ~reply.json
  \/ reply.parsedText = emptyText
  \/ ~isArray(reply.extractedSkills) /\ ~isArray(reply.skills)

\* req.body.skills of a profile edit: absent, or an array of names
EditBodies ==
  {undefined, array(<<>>), array(<<"React", " react ", "">>)}

NoResponse == [route |-> "none", status |-> 0, body |-> [none |-> TRUE]]
AnalyzeIdle ==
  [pc |-> "idle", parsedText |-> emptyText, skills |-> undefined, i |-> 0,
   callFailed |-> FALSE, fellBack |-> FALSE]
EditIdle == [pc |-> "idle", replace |-> FALSE, existing |-> {}, skills |-> <<>>]

\* the names of the tags and skills of the recommendation requests
TagNames == {"React", "react", "aws"}
SkillNames == {"react", "node", "sql", "aws"}

VARIABLES
  jobQueue,       \* prisma.jobQueue: task id -> [status, result]
  jobData,        \* BullMQ job.data of each task
  bullState,      \* BullMQ's state of each job
  deliveries,     \* how often each job was handed to a worker
  workers,        \* each worker: the job it runs and where its processor is
  handlers,       \* event handler invocations that have not finished
  seekerProfile,  \* prisma.seekerProfile (one profile)
  seekerSkill,    \* prisma.seekerSkill rows of the profile, in insertion order
  jobPosting,     \* prisma.jobPosting (one posting): exists, deleting, deleted
  application,    \* prisma.application (one application)
  written,        \* per task: how many status writes the handlers made
  cvLog,          \* history of the CV_PARSE processor runs
  jobTag,         \* prisma.jobTag rows of the posting, in insertion order
  analyzeReq,     \* the POST /seeker/cv/analyze request in flight
  editReq,        \* the PUT /seeker/profile request in flight
  requests,       \* how many analyze and edit requests were started
  response,       \* the HTTP response sent last
  posting,        \* the columns of the job posting
  employerProfile,\* prisma.employerProfile of the posting's employer
  matchLog,       \* history of the calls of calculateJobMatch
  otherPostings,  \* prisma.jobPosting: the other postings with their tags, in order
  extraction,     \* the call of an extractSkillsFromText: text, function, result
  submitReq,      \* the POST / application submissions in flight
  chatRoom,       \* prisma.chatRoom: the application's room, its id and creator
  chatMessage,    \* prisma.message rows of the room: their senders, in order
  channel,        \* the sockets that joined the room's channel
  client          \* each user's client: the chat handler it runs

callVars == <<extraction, submitReq, chatRoom, chatMessage, channel, client>>
dataVars == <<posting, employerProfile, matchLog, otherPostings>>
httpVars == <<jobTag, analyzeReq, editReq, requests, response, callVars>>

vars == <<jobQueue, jobData, bullState, deliveries, workers, handlers,
          seekerProfile, seekerSkill, jobPosting, application, written, cvLog,
          jobTag, analyzeReq, editReq, requests, response, posting,
          employerProfile, matchLog, otherPostings, extraction, submitReq,
          chatRoom,
          chatMessage, channel, client>>

Idle == [job |-> NoJob, pc |-> "idle", i |-> 0]

\* the seeker profile before any CV is uploaded
newProfile ==
  [parsedCvText |-> NULL, cvUrl |-> NULL, firstName |-> "First", lastName |-> "Last",
   email |-> "seeker@example.com", location |-> NULL]

\* the application of the task pipeline: the seeker's one application
theApplication == [exists |-> TRUE, rows |-> 1, coverLetter |-> userLetter]
\* no application of the seeker for the posting
noApplication == [exists |-> FALSE, rows |-> 0, coverLetter |-> userLetter]
SubmitIdle == [pc |-> "idle", status |-> 0]

\* the posting and the employer profile of the task pipeline
thePosting ==
  [title |-> "Frontend Engineer", requirements |-> "React and Node.js",
   description |-> "Build web applications", location |-> "Berlin"]
theEmployer == [exists |-> TRUE, companyName |-> "TechCorp"]

\* the users of the chat: the application's seeker and employer, and a user
\* who is neither
Users == {"seeker", "employer", "outsider"}
\* the concurrent submissions of one application
Submissions == {"s1", "s2"}
ClientIdle == [pc |-> "idle", chatRoomId |-> "none", emitted |-> "none"]
\* the ids a client may name: the application's id and the id POST /rooms
\* generated for its room
applicationId == "a1"
generatedId == "room1"
ChatRoomIds == {applicationId, generatedId}
NoChatRoom == [exists |-> FALSE, id |-> "none", createdBy |-> "none"]
NoExtraction ==
  [text |-> undefined, by |-> "none", result |-> [threw |-> FALSE, skills |-> <<>>]]

DataInit ==
  /\ posting = thePosting
  /\ employerProfile = theEmployer
  /\ matchLog = {}
  /\ otherPostings = <<>>

CallInit ==
  /\ extraction = NoExtraction
  /\ submitReq = [r \in Submissions |-> SubmitIdle]
  /\ chatRoom = NoChatRoom
  /\ chatMessage = <<>>
  /\ channel = {}
  /\ client = [u \in Users |-> ClientIdle]

Init ==
  /\ jobQueue = [t \in TaskIds |-> NoRow]
  /\ jobData = [t \in TaskIds |-> NoData]
  /\ bullState = [t \in TaskIds |-> "none"]
  /\ deliveries = [t \in TaskIds |-> 0]
  /\ workers = [w \in Workers |-> Idle]
  /\ handlers = {}
  /\ seekerProfile = newProfile
  /\ seekerSkill = <<>>
  /\ jobPosting = "exists"
  /\ application = theApplication
  /\ written = [t \in TaskIds |-> 0]
  /\ cvLog = [done |-> 0, sequential |-> TRUE, afterOnce |-> <<>>, threw |-> FALSE]
  /\ jobTag = <<"react", "aws">>
  /\ analyzeReq = AnalyzeIdle
  /\ editReq = EditIdle
  /\ requests = 0
  /\ response = NoResponse
  /\ DataInit
  /\ CallInit

\* ------------------------------------------------------------ record store
SeekerSkillNames == {seekerSkill[k] : k \in 1 .. Len(seekerSkill)}

\* a where clause that never matches a stored row
findFirstSkillNoMatch(name) == FALSE

\* prisma.seekerSkill.findFirst({where: {seekerProfileId, name}})
findFirstSkill(name) == name \in SeekerSkillNames

\* if (!existingSkill): is a row created for the skill
needsCreate(existingSkill) == ~existingSkill

\* a table without the unique index
uniqueViolationNone(name) == FALSE

\* the unique index SeekerSkill(seekerProfileId, name): create is rejected
uniqueViolation(name) == name \in SeekerSkillNames

jobPostingFound == jobPosting # "deleted"

RECURSIVE sumTo(_, _)
sumTo(f, n) == IF n = 0 THEN 0 ELSE f[TaskOrder[n]] + sumTo(f, n - 1)
\* may one more delivery happen
canDeliver == sumTo(deliveries, Len(TaskOrder)) < MaxDeliveries

\* ------------------------------------------------------------- the queue
\* enqueue(queueName, payload): a status row in PENDING for a payload that
\* carries a dbJobId, and the job waiting in its queue
Enqueue(t, data) ==
  /\ bullState[t] = "none"
  /\ \E k \in 1 .. Len(TaskOrder) :
       /\ TaskOrder[k] = t
       /\ \A j \in 1 .. k - 1 : bullState[TaskOrder[j]] # "none"
  /\ jobData' = [jobData EXCEPT ![t] = data]
  /\ bullState' = [bullState EXCEPT ![t] = "waiting"]
  /\ jobQueue' = [jobQueue EXCEPT ![t] =
       IF data.dbJobId THEN [status |-> PENDING, result |-> NullResult] ELSE NoRow]
  /\ UNCHANGED <<deliveries, workers, handlers, seekerProfile, seekerSkill,
                 jobPosting, application, written, cvLog>>
  /\ UNCHANGED httpVars
  /\ UNCHANGED dataVars

\* a queue that also hands out a job another worker holds
canTakeActive(t) == bullState[t] \in {"waiting", "active"}

\* may the queue hand job t to a worker: only a waiting job is moved to active
canTake(t) == bullState[t] = "waiting"

\* where the processor of a job starts
startPc(type) == IF type = CV_PARSE THEN "find" ELSE "run"

RunsCv(w) == workers[w].job # NoJob /\ jobData[workers[w].job].type = CV_PARSE

\* new Worker(queue, async job => process...(job.data)): the worker takes the
\* next waiting job; no record is written
WorkerTake(w, t) ==
  /\ workers[w].job = NoJob
  /\ canTake(t)
  /\ canDeliver
  /\ bullState' = [bullState EXCEPT ![t] = "active"]
  /\ deliveries' = [deliveries EXCEPT ![t] = @ + 1]
  /\ workers' = [workers EXCEPT ![w] =
       [job |-> t, pc |-> startPc(jobData[t].type), i |-> 1]]
  /\ cvLog' = IF jobData[t].type = CV_PARSE /\ \E v \in Workers : RunsCv(v)
              THEN [cvLog EXCEPT !.sequential = FALSE] ELSE cvLog
  /\ UNCHANGED <<jobQueue, jobData, handlers, seekerProfile, seekerSkill,
                 jobPosting, application, written>>
  /\ UNCHANGED httpVars
  /\ UNCHANGED dataVars

\* the worker process dies while its processor runs: the job stalls and the
\* queue hands it out again
WorkerCrash(w) ==
  /\ workers[w].job # NoJob
  /\ canDeliver
  /\ bullState' = [bullState EXCEPT ![workers[w].job] = "waiting"]
  /\ workers' = [workers EXCEPT ![w] = Idle]
  /\ UNCHANGED <<jobQueue, jobData, deliveries, handlers, seekerProfile,
                 seekerSkill, jobPosting, application, written, cvLog>>
  /\ UNCHANGED httpVars
  /\ UNCHANGED dataVars

\* the queue dashboard's retry of a finished job
BoardRetry(t) ==
  /\ bullState[t] \in {"completed", "failed"}
  /\ canDeliver
  /\ bullState' = [bullState EXCEPT ![t] = "waiting"]
  /\ UNCHANGED <<jobQueue, jobData, deliveries, workers, handlers, seekerProfile,
                 seekerSkill, jobPosting, application, written, cvLog>>
  /\ UNCHANGED httpVars
  /\ UNCHANGED dataVars

\* the processor of worker w returned result: the job is completed and the
\* worker's 'completed' event is emitted
Returned(w, result) ==
  /\ bullState' = [bullState EXCEPT ![workers[w].job] = "completed"]
  /\ handlers' = handlers \cup
       {[event |-> "completed", job |-> workers[w].job,
         run |-> deliveries[workers[w].job], pc |-> "status", result |-> result]}
  /\ workers' = [workers EXCEPT ![w] = Idle]

\* the processor of worker w threw: the job is failed and the worker's 'failed'
\* event is emitted
Threw(w, message) ==
  /\ bullState' = [bullState EXCEPT ![workers[w].job] = "failed"]
  /\ handlers' = handlers \cup
       {[event |-> "failed", job |-> workers[w].job,
         run |-> deliveries[workers[w].job], pc |-> "status",
         error |-> [message |-> message]]}
  /\ workers' = [workers EXCEPT ![w] = Idle]

\* ---------------------------------------------------------- the processors
extractedSkills == followed(extractSkillsFromText(jsText(sampleCvText)).skills)

cvDone(threw) ==
  [cvLog EXCEPT !.done = IF @ < 2 THEN @ + 1 ELSE @,
                !.afterOnce = IF cvLog.done = 0 THEN seekerSkill' ELSE @,
                !.threw = IF cvLog.done >= 1 THEN @ \/ threw ELSE @]

\* processCvParsing, the loop's findFirst for skill i
ProcessCvParsingFind(w) ==
  /\ workers[w].job # NoJob
  /\ workers[w].pc = "find"
  /\ workers[w].i <= Len(extractedSkills)
  /\ workers' = [workers EXCEPT ![w] =
       IF needsCreate(findFirstSkill(extractedSkills[workers[w].i]))
       THEN [@ EXCEPT !.pc = "create"]
       ELSE [@ EXCEPT !.i = @ + 1]]
  /\ UNCHANGED <<jobQueue, jobData, bullState, deliveries, handlers, seekerProfile,
                 seekerSkill, jobPosting, application, written, cvLog>>
  /\ UNCHANGED httpVars
  /\ UNCHANGED dataVars

\* processCvParsing, the loop's create for skill i
ProcessCvParsingCreate(w) ==
  /\ workers[w].job # NoJob
  /\ workers[w].pc = "create"
  /\ IF uniqueViolation(extractedSkills[workers[w].i])
     THEN /\ Threw(w, "Unique constraint failed")
          /\ seekerSkill' = seekerSkill
          /\ cvLog' = cvDone(TRUE)
     ELSE /\ seekerSkill' = Append(seekerSkill, extractedSkills[workers[w].i])
          /\ workers' = [workers EXCEPT ![w] = [@ EXCEPT !.pc = "find", !.i = @ + 1]]
          /\ UNCHANGED <<bullState, handlers, cvLog>>
  /\ UNCHANGED <<jobQueue, jobData, deliveries, seekerProfile, jobPosting,
                 application, written>>
  /\ UNCHANGED httpVars
  /\ UNCHANGED dataVars

\* a processor that persists the parsed text itself, as POST /seeker/cv/analyze does
ProcessCvParsingReturnWrites(w) ==
  /\ workers[w].job # NoJob
  /\ workers[w].pc = "find"
  /\ workers[w].i > Len(extractedSkills)
  /\ Returned(w, [parsedText |-> sampleCvText, extractedSkills |-> extractedSkills])
  /\ seekerSkill' = seekerSkill
  /\ cvLog' = cvDone(FALSE)
  /\ seekerProfile' = [seekerProfile EXCEPT !.parsedCvText = sampleCvText]
  /\ UNCHANGED <<jobQueue, jobData, deliveries, jobPosting, application, written>>
  /\ UNCHANGED httpVars
  /\ UNCHANGED dataVars

\* processCvParsing, the return after the loop
ProcessCvParsingReturn(w) ==
  /\ workers[w].job # NoJob
  /\ workers[w].pc = "find"
  /\ workers[w].i > Len(extractedSkills)
  /\ Returned(w, [parsedText |-> sampleCvText, extractedSkills |-> extractedSkills])
  /\ seekerSkill' = seekerSkill
  /\ cvLog' = cvDone(FALSE)
  /\ UNCHANGED <<jobQueue, jobData, deliveries, seekerProfile, jobPosting,
                 application, written>>
  /\ UNCHANGED httpVars
  /\ UNCHANGED dataVars

\* Array.prototype.join(', ')
RECURSIVE join(_)
join(names) ==
  IF Len(names) = 0 THEN ""
  ELSE IF Len(names) = 1 THEN names[1]
  ELSE names[1] \o ", " \o join(Tail(names))

\* a company name taken as it is stored: no name for a missing profile
companyNameStored(profile) == IF profile.exists THEN profile.companyName ELSE ""

\* jobPosting.employer.employerProfile?.companyName || 'Company'
companyNameOf(profile) ==
  IF profile.exists /\ profile.companyName # "" THEN profile.companyName ELSE "Company"

\* the letter the template yields, its line breaks written as blanks
composeLetter(seekerName, email, companyName, jobTitle, skills) ==
  seekerName \o " " \o email
    \o " Dear Hiring Manager at " \o companyName \o ","
    \o " I am writing to express my interest in the " \o jobTitle
    \o " position at " \o companyName \o ". With my background and skills in "
    \o skills \o ", I believe I would be a valuable addition to your team."
    \o " Throughout my career, I have developed strong expertise in web"
    \o " development technologies and have consistently delivered high-quality"
    \o " solutions. My experience aligns well with the requirements outlined in"
    \o " your job posting, and I am excited about the opportunity to contribute"
    \o " to your organization."
    \o " In my previous roles, I have successfully implemented complex features,"
    \o " collaborated with cross-functional teams, and maintained a focus on"
    \o " delivering exceptional user experiences. I am particularly drawn to "
    \o companyName \o "'s innovative approach to technology solutions and would"
    \o " welcome the chance to be part of your continued success."
    \o " I am confident that my technical skills, combined with my"
    \o " problem-solving abilities and teamwork, make me a strong candidate for"
    \o " this position. I look forward to the opportunity to discuss how my"
    \o " background and experience can benefit " \o companyName \o "."
    \o " Thank you for considering my application."
    \o " Sincerely, " \o seekerName

\* the letter of the seeker for the posting
coverLetter ==
  composeLetter(seekerProfile.firstName \o " " \o seekerProfile.lastName,
                seekerProfile.email, companyNameOf(employerProfile), posting.title,
                join(seekerSkill))

processCoverLetterGeneration(w) ==
  /\ workers[w].job # NoJob
  /\ workers[w].pc = "run"
  /\ jobData[workers[w].job].type = COVER_LETTER
  /\ IF jobPostingFound
     THEN Returned(w, [coverLetter |-> coverLetter])
     ELSE Threw(w, "Job posting not found")
  /\ UNCHANGED <<jobQueue, jobData, deliveries, seekerProfile, seekerSkill,
                 jobPosting, application, written, cvLog>>
  /\ UNCHANGED httpVars
  /\ UNCHANGED dataVars

\* the arguments processJobMatching passes to calculateJobMatch
matchSeeker ==
  [skills |-> seekerSkill,
   parsedCvText |-> IF seekerProfile.parsedCvText = NULL THEN "undefined"
                    ELSE seekerProfile.parsedCvText]
matchJob ==
  [requirements |-> posting.requirements, description |-> posting.description,
   location |-> posting.location]

matchOne == [jobPostingId |-> "j1", matchScore |-> calculateJobMatch(matchSeeker, matchJob)]

\* the entry of the k-th of the other postings
matchOther(k) ==
  [jobPostingId |-> otherPostings[k].id,
   matchScore |-> calculateJobMatch(matchSeeker, otherPostings[k])]

\* the entries of every posting jobPosting.findMany returns
matchResults ==
  (IF jobPostingFound THEN <<matchOne>> ELSE <<>>)
    \o [k \in 1 .. Len(otherPostings) |-> matchOther(k)]

\* a call of calculateJobMatch as the history keeps it
matchCall(job, score) ==
  [skills |-> seekerSkill, requirements |-> job.requirements,
   description |-> job.description, parsedCvText |-> seekerProfile.parsedCvText,
   seekerLocation |-> seekerProfile.location, jobLocation |-> job.location,
   score |-> score]

\* the history of the calls after a run of processJobMatching: a call is made
\* for the posting if it is found, and for the other postings if every posting
\* is matched
matchLogged(data) ==
  matchLog
    \cup (IF jobPostingFound THEN {matchCall(posting, matchOne.matchScore)} ELSE {})
    \cup (IF data.jobPostingId THEN {}
          ELSE {matchCall(otherPostings[k], matchOther(k).matchScore) :
                  k \in 1 .. Len(otherPostings)})

\* a processor that stores its result on the application
processJobMatchingPersists(w) ==
  /\ workers[w].job # NoJob
  /\ workers[w].pc = "run"
  /\ jobData[workers[w].job].type = MATCH
  /\ IF jobData[workers[w].job].jobPostingId
     THEN IF jobPostingFound
          THEN Returned(w, matchOne)
          ELSE Threw(w, "Job posting with ID j1 not found")
     ELSE Returned(w, [matches |-> matchResults])
  /\ application' = [application EXCEPT !.coverLetter = "match result"]
  /\ matchLog' = matchLogged(jobData[workers[w].job])
  /\ UNCHANGED <<jobQueue, jobData, deliveries, seekerProfile, seekerSkill,
                 jobPosting, written, cvLog>>
  /\ UNCHANGED httpVars
  /\ UNCHANGED <<posting, employerProfile, otherPostings>>

\* processJobMatching: the score of one posting, or of every posting
processJobMatching(w) ==
  /\ workers[w].job # NoJob
  /\ workers[w].pc = "run"
  /\ jobData[workers[w].job].type = MATCH
  /\ IF jobData[workers[w].job].jobPostingId
     THEN IF jobPostingFound
          THEN Returned(w, matchOne)
          ELSE Threw(w, "Job posting with ID j1 not found")
     ELSE Returned(w, [matches |-> matchResults])
  /\ matchLog' = matchLogged(jobData[workers[w].job])
  /\ UNCHANGED <<jobQueue, jobData, deliveries, seekerProfile, seekerSkill,
                 jobPosting, application, written, cvLog>>
  /\ UNCHANGED httpVars
  /\ UNCHANGED <<posting, employerProfile, otherPostings>>


\* ------------------------------------------------- the workers' event handlers
\* prisma.jobQueue.update({where: {id: job.data.dbJobId}, data}): the row
\* after the update
jobQueueUpdate(row, status, result) == [status |-> status, result |-> result]

\* the status the 'completed' handlers write
completedStatus == COMPLETED
\* the 'failed' handler's expression pasted into the 'completed' handler
completedResultPasted(result) == JSONstringify([error |-> "undefined"])

\* the result the 'completed' handlers write
completedResult(result) == JSONstringify(result)
\* the 'completed' handler's status pasted into the 'failed' handler
failedStatusPasted == COMPLETED

\* the status the 'failed' handlers write
failedStatus == FAILED
\* the result the 'failed' handlers write
failedResult(error) == JSONstringify([error |-> error.message])

\* does the handler write the status row: the job matching handlers test
\* job.data.dbJobId, the others do not
writesStatus(data) == data.type # MATCH \/ data.dbJobId

\* worker.on('completed'), the jobQueue.update
OnCompletedStatus(h) ==
  /\ h \in handlers
  /\ h.event = "completed"
  /\ h.pc = "status"
  /\ IF writesStatus(jobData[h.job])
     THEN /\ jobQueue' = [jobQueue EXCEPT ![h.job] =
                jobQueueUpdate(@, completedStatus, completedResult(h.result))]
          /\ written' = [written EXCEPT ![h.job] = @ + 1]
     ELSE UNCHANGED <<jobQueue, written>>
  /\ handlers' = IF jobData[h.job].type = MATCH
                 THEN handlers \ {h}
                 ELSE (handlers \ {h}) \cup {[h EXCEPT !.pc = "fanout"]}
  /\ UNCHANGED <<jobData, bullState, deliveries, workers, seekerProfile,
                 seekerSkill, jobPosting, application, cvLog>>
  /\ UNCHANGED httpVars
  /\ UNCHANGED dataVars

\* a misspelt field of the result: undefined, which the update ignores
parsedCvTextOfTypo(result) == "undefined"

\* what the cv parsing handler writes to seekerProfile.parsedCvText
parsedCvTextOf(result) == result.parsedText
\* what the cover letter handler writes to application.coverLetter
coverLetterOf(result) == result.coverLetter

\* worker.on('completed'), the update of the owning record; the update of an
\* application that is gone throws and writes nothing
OnCompletedFanOut(h) ==
  /\ h \in handlers
  /\ h.event = "completed"
  /\ h.pc = "fanout"
  /\ handlers' = handlers \ {h}
  /\ IF jobData[h.job].type = CV_PARSE
     THEN /\ seekerProfile' = [seekerProfile EXCEPT !.parsedCvText = parsedCvTextOf(h.result)]
          /\ UNCHANGED application
     ELSE /\ application' = IF application.exists
                            THEN [application EXCEPT !.coverLetter = coverLetterOf(h.result)]
                            ELSE application
          /\ UNCHANGED seekerProfile
  /\ UNCHANGED <<jobQueue, jobData, bullState, deliveries, workers, seekerSkill,
                 jobPosting, written, cvLog>>
  /\ UNCHANGED httpVars
  /\ UNCHANGED dataVars

\* worker.on('failed')
OnFailed(h) ==
  /\ h \in handlers
  /\ h.event = "failed"
  /\ handlers' = handlers \ {h}
  /\ IF writesStatus(jobData[h.job])
     THEN /\ jobQueue' = [jobQueue EXCEPT ![h.job] =
                jobQueueUpdate(@, failedStatus, failedResult(h.error))]
          /\ written' = [written EXCEPT ![h.job] = @ + 1]
     ELSE UNCHANGED <<jobQueue, written>>
  /\ UNCHANGED <<jobData, bullState, deliveries, workers, seekerProfile,
                 seekerSkill, jobPosting, application, cvLog>>
  /\ UNCHANGED httpVars
  /\ UNCHANGED dataVars

\* ------------------------------------------------------------ other writers
\* DELETE /jobs/:id, the deleteMany of the posting's applications
DeleteJobApplications ==
  /\ jobPosting = "exists"
  /\ jobPosting' = "deleting"
  /\ application' = [application EXCEPT !.exists = FALSE, !.rows = 0]
  /\ UNCHANGED <<jobQueue, jobData, bullState, deliveries, workers, handlers,
                 seekerProfile, seekerSkill, written, cvLog>>
  /\ UNCHANGED httpVars
  /\ UNCHANGED dataVars

\* DELETE /jobs/:id, the delete of the posting
DeleteJobPosting ==
  /\ jobPosting = "deleting"
  /\ jobPosting' = "deleted"
  /\ application' = [application EXCEPT !.exists = FALSE, !.rows = 0]
  /\ UNCHANGED <<jobQueue, jobData, bullState, deliveries, workers, handlers,
                 seekerProfile, seekerSkill, written, cvLog>>
  /\ UNCHANGED httpVars
  /\ UNCHANGED dataVars

\* an update's new value of a column: a field the body leaves out is kept
updated(stored, field) == IF field = "undefined" THEN stored ELSE field

\* PUT /jobs/:id of the posting's employer with a body that carries a location
UpdateJob(location) ==
  /\ IF jobPostingFound
     THEN /\ posting' = [posting EXCEPT !.location = updated(@, location)]
          /\ response' = [route |-> "jobs", status |-> 200, body |-> [job |-> "updated"]]
     ELSE /\ response' = [route |-> "jobs", status |-> 404,
                          body |-> [message |-> "Job not found"]]
          /\ UNCHANGED posting
  /\ UNCHANGED <<jobQueue, jobData, bullState, deliveries, workers, handlers,
                 seekerProfile, seekerSkill, jobPosting, application, written, cvLog,
                 employerProfile, matchLog, otherPostings, jobTag, analyzeReq,
                 editReq, requests>>
  /\ UNCHANGED callVars

\* ------------------------------------------------------------ the HTTP routes
pipelineVars == <<jobQueue, jobData, bullState, deliveries, workers, handlers,
                  jobPosting, application, written, cvLog, dataVars>>

Respond(route, status, body) == [route |-> route, status |-> status, body |-> body]

\* the URL the upload routes store: req.body.cvUrl, or the public URL of the file
cvUrlOf(route) == IF route = "seeker/cv" THEN "body.cvUrl" ELSE "uploads/cv/file"
uploadMessage(route) ==
  IF route = "seeker/cv" THEN "CV uploaded successfully and queued for processing"
  ELSE "CV uploaded successfully"

\* POST /seeker/cv and POST /seeker/cv/upload
UploadCv(route) ==
  /\ seekerProfile' = [seekerProfile EXCEPT !.cvUrl = cvUrlOf(route)]
  /\ response' = Respond(route, 200, [message |-> uploadMessage(route)])
  /\ UNCHANGED pipelineVars
  /\ UNCHANGED callVars
  /\ UNCHANGED <<seekerSkill, jobTag, analyzeReq, editReq, requests>>

\* POST /:jobId/cover-letter
RequestCoverLetter ==
  /\ response' =
       IF jobPostingFound
       THEN Respond("cover-letter", 200,
                    [message |-> "Cover letter generation has been queued",
                     status |-> PENDING])
       ELSE Respond("cover-letter", 404, [message |-> "Job not found"])
  /\ UNCHANGED pipelineVars
  /\ UNCHANGED callVars
  /\ UNCHANGED <<seekerProfile, seekerSkill, jobTag, analyzeReq, editReq, requests>>

\* data of POST /seeker/cv/analyze: resp.json().catch(() => ({}))
serviceData(reply) ==
  IF reply.json THEN reply ELSE Reply("ok", FALSE, emptyText, undefined, undefined)

\* parsedText after the call of the service
aiParsedText(configured, reply) ==
  IF configured /\ reply.fetch = "ok" THEN serviceData(reply).parsedText ELSE emptyText

\* extractedSkills after the call of the service
aiExtractedSkills(configured, reply) ==
  IF configured /\ reply.fetch = "ok"
  THEN IF isArray(serviceData(reply).extractedSkills)
       THEN serviceData(reply).extractedSkills
       ELSE orElse(serviceData(reply).skills, array(<<>>))
  ELSE array(<<>>)

\* if (!parsedText || extractedSkills.length === 0)
needsFallback(parsedText, skills) == parsedText = emptyText \/ lengthIsZero(skills)

\* parsedText = parsedText || '...'
fallbackText(parsedText) == IF parsedText = emptyText THEN placeholderText ELSE parsedText

\* the request's parsedText and extractedSkills before they are persisted
analysis(configured, reply) ==
  LET text == aiParsedText(configured, reply)
      skills == aiExtractedSkills(configured, reply)
      fallback == needsFallback(text, skills)
  IN [pc |-> "text",
      parsedText |-> IF fallback THEN fallbackText(text) ELSE text,
      skills |-> IF fallback THEN array(routeExtracted[fallbackText(text)])
                 ELSE skills,
      i |-> 1,
      callFailed |-> configured /\ callFailed(reply),
      fellBack |-> fallback]

\* POST /seeker/cv/analyze up to the reply of the analysis service
AnalyzeStart(configured, reply) ==
  /\ analyzeReq.pc = "idle"
  /\ requests < MaxRequests
  /\ requests' = requests + 1
  /\ IF seekerProfile.cvUrl = NULL
     THEN /\ response' = Respond("analyze", 400, [message |-> "No CV uploaded"])
          /\ UNCHANGED analyzeReq
     ELSE /\ analyzeReq' = analysis(configured, reply)
          /\ UNCHANGED response
  /\ UNCHANGED pipelineVars
  /\ UNCHANGED callVars
  /\ UNCHANGED <<seekerProfile, seekerSkill, jobTag, editReq>>

\* res.json({parsedText, extractedSkills})
AnalyzeOk ==
  /\ response' = Respond("analyze", 200,
       [parsedText |-> analyzeReq.parsedText, extractedSkills |-> analyzeReq.skills])
  /\ analyzeReq' = AnalyzeIdle

\* the route's catch: res.status(500).json({message})
AnalyzeError(message) ==
  /\ response' = Respond("analyze", 500, [message |-> message])
  /\ analyzeReq' = AnalyzeIdle

\* POST /seeker/cv/analyze, the update of parsedCvText and the entry of the loop
AnalyzePersistText ==
  /\ analyzeReq.pc = "text"
  /\ seekerProfile' = [seekerProfile EXCEPT !.parsedCvText = analyzeReq.parsedText]
  /\ IF ~iterable(analyzeReq.skills)
     THEN AnalyzeError("extractedSkills is not iterable")
     ELSE IF Len(analyzeReq.skills.items) = 0
          THEN AnalyzeOk
          ELSE /\ analyzeReq' = [analyzeReq EXCEPT !.pc = "find"]
               /\ UNCHANGED response
  /\ UNCHANGED pipelineVars
  /\ UNCHANGED callVars
  /\ UNCHANGED <<seekerSkill, jobTag, editReq, requests>>

\* the loop goes on to skill i + 1, or the request is answered
AnalyzeAdvance ==
  IF analyzeReq.i + 1 > Len(analyzeReq.skills.items)
  THEN AnalyzeOk
  ELSE /\ analyzeReq' = [analyzeReq EXCEPT !.pc = "find", !.i = @ + 1]
       /\ UNCHANGED response

\* POST /seeker/cv/analyze, the loop's findFirst for skill i
AnalyzeFind ==
  /\ analyzeReq.pc = "find"
  /\ IF needsCreate(findFirstSkill(analyzeReq.skills.items[analyzeReq.i]))
     THEN /\ analyzeReq' = [analyzeReq EXCEPT !.pc = "create"]
          /\ UNCHANGED response
     ELSE AnalyzeAdvance
  /\ UNCHANGED pipelineVars
  /\ UNCHANGED callVars
  /\ UNCHANGED <<seekerProfile, seekerSkill, jobTag, editReq, requests>>

\* POST /seeker/cv/analyze, the loop's create for skill i
AnalyzeCreate ==
  /\ analyzeReq.pc = "create"
  /\ IF uniqueViolation(analyzeReq.skills.items[analyzeReq.i])
     THEN /\ AnalyzeError("Unique constraint failed")
          /\ UNCHANGED seekerSkill
     ELSE /\ seekerSkill' = Append(seekerSkill, analyzeReq.skills.items[analyzeReq.i])
          /\ AnalyzeAdvance
  /\ UNCHANGED pipelineVars
  /\ UNCHANGED callVars
  /\ UNCHANGED <<seekerProfile, jobTag, editReq, requests>>

\* where PUT /seeker/profile goes on after the findMany and after the deleteMany
afterDelete(skills) == IF Len(skills) > 0 THEN "create" ELSE "respond"
afterFind(existing, skills) == IF existing # {} THEN "delete" ELSE afterDelete(skills)

\* PUT /seeker/profile up to the findMany of the existing skills: the upsert
\* of the profile's fields, of which the model follows the location
EditStart(body, location) ==
  /\ editReq.pc = "idle"
  /\ requests < MaxRequests
  /\ requests' = requests + 1
  /\ seekerProfile' = [seekerProfile EXCEPT !.location = updated(@, location)]
  /\ editReq' =
       IF isArray(body)
       THEN [pc |-> afterFind(SeekerSkillNames, body.items), replace |-> TRUE,
             existing |-> SeekerSkillNames, skills |-> body.items]
       ELSE [EditIdle EXCEPT !.pc = "respond"]
  /\ UNCHANGED pipelineVars
  /\ UNCHANGED callVars
  /\ UNCHANGED <<seekerSkill, jobTag, analyzeReq, response>>

\* prisma.seekerSkill.deleteMany({where: {id: {in: existingIds}}}); one edit is
\* in flight at a time, so the rows found are the rows of these names
deleteMany(rows, existing) ==
  LET Kept(name) == name \notin existing IN SelectSeq(rows, Kept)

\* PUT /seeker/profile, the deleteMany
EditDelete ==
  /\ editReq.pc = "delete"
  /\ seekerSkill' = deleteMany(seekerSkill, editReq.existing)
  /\ editReq' = [editReq EXCEPT !.pc = afterDelete(editReq.skills)]
  /\ UNCHANGED pipelineVars
  /\ UNCHANGED callVars
  /\ UNCHANGED <<seekerProfile, jobTag, analyzeReq, requests, response>>

\* the name PUT /seeker/profile stores for an entry of body.skills
storedName(name) == trim(name)

\* skills.filter(Boolean).map(name => name.trim())
editNames(skills) ==
  LET Truthy(name) == name # ""
      kept == SelectSeq(skills, Truthy)
  IN [k \in 1 .. Len(kept) |-> storedName(kept[k])]

\* prisma.seekerSkill.createMany({data, skipDuplicates: true})
RECURSIVE createMany(_, _)
createMany(rows, names) ==
  IF names = <<>> THEN rows
  ELSE createMany(IF \E k \in 1 .. Len(rows) : rows[k] = Head(names)
                  THEN rows ELSE Append(rows, Head(names)),
                  Tail(names))

\* PUT /seeker/profile, the createMany
EditCreate ==
  /\ editReq.pc = "create"
  /\ seekerSkill' = createMany(seekerSkill, editNames(editReq.skills))
  /\ editReq' = [editReq EXCEPT !.pc = "respond"]
  /\ UNCHANGED pipelineVars
  /\ UNCHANGED callVars
  /\ UNCHANGED <<seekerProfile, jobTag, analyzeReq, requests, response>>

\* PUT /seeker/profile, the findUnique of the profile and the response
EditRespond ==
  /\ editReq.pc = "respond"
  /\ response' = Respond("seeker/profile", 200, [profile |-> "updatedSeeker"])
  /\ editReq' = EditIdle
  /\ UNCHANGED pipelineVars
  /\ UNCHANGED callVars
  /\ UNCHANGED <<seekerProfile, seekerSkill, jobTag, analyzeReq, requests>>

\* ------------------------------------------------------- the recommendations
\* the score GET /matching/seeker gives every job
placeholderScore == 75

\* jobPosting.findMany with the tags: the posting of the task pipeline, if it
\* is there, and the other postings
jobPostings ==
  (IF jobPostingFound THEN <<[id |-> "j1", tags |-> jobTag]>> ELSE <<>>)
    \o [k \in 1 .. Len(otherPostings) |->
          [id |-> otherPostings[k].id, tags |-> otherPostings[k].tags]]

\* the entry findMatchingJobs makes for a posting: the score before rounding,
\* as the fraction num / den, and the matching tags
matchedJob(skills, job) ==
  LET seekerSkills == [k \in 1 .. Len(skills) |-> toLowerCase(skills[k])]
      jobTags == [k \in 1 .. Len(job.tags) |-> toLowerCase(job.tags[k])]
      Hit(tag) == \E k \in 1 .. Len(seekerSkills) : seekerSkills[k] = tag
      matchingTags == SelectSeq(jobTags, Hit)
  IN [job |-> job.id,
      matchScore |-> IF Len(jobTags) > 0
                     THEN [num |-> Len(matchingTags) * 100, den |-> Len(jobTags)]
                     ELSE [num |-> 0, den |-> 1],
      matchingTags |-> matchingTags]

\* b.matchScore - a.matchScore > 0: the comparator puts b before a
scoreBelow(a, b) == a.matchScore.num * b.matchScore.den < b.matchScore.num * a.matchScore.den

\* Array.prototype.sort((a, b) => b.matchScore - a.matchScore): the stable sort
\* by the score before rounding, highest first
RECURSIVE sortByMatchScore(_)
sortByMatchScore(list) ==
  IF list = <<>> THEN <<>>
  ELSE LET last == list[Len(list)]
           sorted == sortByMatchScore(SubSeq(list, 1, Len(list) - 1))
           ahead == SelectSeq(sorted, LAMBDA entry : ~scoreBelow(entry, last))
           behind == SelectSeq(sorted, LAMBDA entry : scoreBelow(entry, last))
       IN ahead \o <<last>> \o behind

\* findMatchingJobs: an entry for every posting, sorted by the score
findMatchingJobs(skills, postings) ==
  sortByMatchScore([k \in 1 .. Len(postings) |-> matchedJob(skills, postings[k])])

\* getJobRecommendations: the entries in the order of findMatchingJobs, each
\* with its score rounded
getJobRecommendations(skills, postings) ==
  LET matchedJobs == findMatchingJobs(skills, postings)
  IN [k \in 1 .. Len(matchedJobs) |->
        [id |-> matchedJobs[k].job,
         matchScore |-> MathRound(matchedJobs[k].matchScore.num,
                                  matchedJobs[k].matchScore.den),
         matchingSkills |-> matchedJobs[k].matchingTags]]

\* a call of getJobRecommendations for the seeker
GetJobRecommendations ==
  /\ response' = Respond("getJobRecommendations", 200,
                         [jobs |-> getJobRecommendations(seekerSkill, jobPostings)])
  /\ UNCHANGED pipelineVars
  /\ UNCHANGED callVars
  /\ UNCHANGED <<seekerProfile, seekerSkill, jobTag, analyzeReq, editReq, requests>>

\* GET /matching/seeker: the entry of the posting
MatchingSeeker ==
  /\ response' = Respond("matching/seeker", 200,
                         [matchScore |-> placeholderScore, matchingSkills |-> <<>>])
  /\ UNCHANGED pipelineVars
  /\ UNCHANGED callVars
  /\ UNCHANGED <<seekerProfile, seekerSkill, jobTag, analyzeReq, editReq, requests>>

\* ------------------------------------------------------ the extraction calls
\* a call of the cover letter processor's extractSkillsFromText
ExtractSkillsFromText ==
  /\ extraction.by = "none"
  /\ extraction' = [extraction EXCEPT !.by = "processor",
                                      !.result = extractSkillsFromText(extraction.text)]
  /\ UNCHANGED <<seekerProfile, seekerSkill, jobTag, analyzeReq, editReq, requests,
                 response, submitReq, chatRoom, chatMessage, channel, client>>
  /\ UNCHANGED pipelineVars

\* a call of the auth routes' extractSkillsFromText
RouteExtractSkillsFromText ==
  /\ extraction.by = "none"
  /\ extraction' = [extraction EXCEPT !.by = "route",
                                      !.result = routeExtractSkillsFromText(extraction.text)]
  /\ UNCHANGED <<seekerProfile, seekerSkill, jobTag, analyzeReq, editReq, requests,
                 response, submitReq, chatRoom, chatMessage, channel, client>>
  /\ UNCHANGED pipelineVars

\* ------------------------------------------------ the application submissions
\* what a step of POST / leaves alone besides the application and the response
submitFrame ==
  <<jobQueue, jobData, bullState, deliveries, workers, handlers, jobPosting,
    written, cvLog, dataVars, seekerProfile, seekerSkill, jobTag, analyzeReq,
    editReq, requests, extraction, chatRoom, chatMessage, channel, client>>

\* the request is answered
SubmitAnswer(r, status, body) ==
  /\ submitReq' = [submitReq EXCEPT ![r] = [pc |-> "done", status |-> status]]
  /\ response' = Respond("applications", status, body)

\* POST /, the findUnique of the user's seeker profile
SubmitStart(r, user) ==
  /\ submitReq[r].pc = "idle"
  /\ IF user # "seeker"
     THEN SubmitAnswer(r, 403, [message |-> "Only job seekers can submit applications"])
     ELSE /\ submitReq' = [submitReq EXCEPT ![r] = [@ EXCEPT !.pc = "job"]]
          /\ UNCHANGED response
  /\ UNCHANGED application
  /\ UNCHANGED submitFrame

\* POST /, the findUnique of the job posting
SubmitFindJob(r) ==
  /\ submitReq[r].pc = "job"
  /\ IF ~jobPostingFound
     THEN SubmitAnswer(r, 404, [message |-> "Job not found"])
     ELSE /\ submitReq' = [submitReq EXCEPT ![r] = [@ EXCEPT !.pc = "find"]]
          /\ UNCHANGED response
  /\ UNCHANGED application
  /\ UNCHANGED submitFrame

\* prisma.application.findFirst({where: {jobPostingId, seekerId}})
findFirstApplication == application.rows > 0

\* POST /, the findFirst of an application of the seeker for the job
SubmitFindApplication(r) ==
  /\ submitReq[r].pc = "find"
  /\ IF findFirstApplication
     THEN SubmitAnswer(r, 400, [message |-> "You have already applied to this job"])
     ELSE /\ submitReq' = [submitReq EXCEPT ![r] = [@ EXCEPT !.pc = "create"]]
          /\ UNCHANGED response
  /\ UNCHANGED application
  /\ UNCHANGED submitFrame

\* POST /, the create: the table has no unique index on the pair, the create
\* fails only on the foreign key of a posting that is gone
SubmitCreate(r) ==
  /\ submitReq[r].pc = "create"
  /\ IF ~jobPostingFound
     THEN /\ SubmitAnswer(r, 500, [message |-> "Server error"])
          /\ UNCHANGED application
     ELSE /\ application' = [exists |-> TRUE, rows |-> application.rows + 1,
                             coverLetter |-> userLetter]
          /\ SubmitAnswer(r, 201, [application |-> "application"])
  /\ UNCHANGED submitFrame

\* ------------------------------------------------------------------ the chat
\* what a chat handler leaves alone besides the chat's own state
chatFrame ==
  <<jobQueue, jobData, bullState, deliveries, workers, handlers, jobPosting,
    application, written, cvLog, dataVars, seekerProfile, seekerSkill, jobTag,
    analyzeReq, editReq, requests, response, extraction, submitReq>>

\* the users of the room's application
isParticipant(user) == user = "seeker" \/ user = "employer"

\* join-chat's check of socket.userId against the application's seeker and employer
accessGranted(user) == isParticipant(user)

\* prisma.chatRoom.findUnique({where: {id}})
findChatRoom(id) == chatRoom.exists /\ chatRoom.id = id

\* the handler of the client ends, having emitted an event to its socket
Emit(user, event) ==
  client' = [client EXCEPT ![user] = [ClientIdle EXCEPT !.emitted = event]]

\* socket.on('join-chat'), the findUnique of the chat room
JoinChatFind(user, id) ==
  /\ client[user].pc = "idle"
  /\ client' = [client EXCEPT ![user] =
       [pc |-> IF findChatRoom(id) THEN "join-check" ELSE "join-application",
        chatRoomId |-> id, emitted |-> "none"]]
  /\ UNCHANGED <<chatRoom, chatMessage, channel>>
  /\ UNCHANGED chatFrame

\* socket.on('join-chat'), the findUnique of the application of that id
JoinChatFindApplication(user) ==
  /\ client[user].pc = "join-application"
  /\ IF client[user].chatRoomId = applicationId /\ application.exists
     THEN client' = [client EXCEPT ![user] = [@ EXCEPT !.pc = "join-create"]]
     ELSE Emit(user, "error: Chat room or application not found")
  /\ UNCHANGED <<chatRoom, chatMessage, channel>>
  /\ UNCHANGED chatFrame

\* socket.on('join-chat'), the create of the room under the application's id;
\* a room of the application that exists by now violates the unique index
JoinChatCreate(user) ==
  /\ client[user].pc = "join-create"
  /\ IF chatRoom.exists
     THEN /\ Emit(user, "error: Failed to join chat room")
          /\ UNCHANGED chatRoom
     ELSE /\ chatRoom' = [exists |-> TRUE, id |-> applicationId, createdBy |-> user]
          /\ client' = [client EXCEPT ![user] = [@ EXCEPT !.pc = "join-check"]]
  /\ UNCHANGED <<chatMessage, channel>>
  /\ UNCHANGED chatFrame

\* socket.on('join-chat'), the access check, socket.join and the two emits
JoinChatCheck(user) ==
  /\ client[user].pc = "join-check"
  /\ IF accessGranted(user)
     THEN /\ channel' = channel \cup {user}
          /\ Emit(user, "chat-history")
     ELSE /\ Emit(user, "error: Access denied to this chat room")
          /\ UNCHANGED channel
  /\ UNCHANGED <<chatRoom, chatMessage>>
  /\ UNCHANGED chatFrame

\* socket.on('send-message'), the findUnique of the chat room
SendMessageFind(user, id) ==
  /\ client[user].pc = "idle"
  /\ Len(chatMessage) < MaxMessages
  /\ IF findChatRoom(id)
     THEN client' = [client EXCEPT ![user] =
            [pc |-> "send-create", chatRoomId |-> id, emitted |-> "none"]]
     ELSE Emit(user, "error: Chat room not found")
  /\ UNCHANGED <<chatRoom, chatMessage, channel>>
  /\ UNCHANGED chatFrame

\* socket.on('send-message'), the create of the message with senderId
\* socket.userId and the emits to the room's channel
SendMessageCreate(user) ==
  /\ client[user].pc = "send-create"
  /\ Len(chatMessage) < MaxMessages
  /\ chatMessage' = Append(chatMessage, user)
  /\ Emit(user, "new-message")
  /\ UNCHANGED <<chatRoom, channel>>
  /\ UNCHANGED chatFrame

\* POST /rooms, the findUnique of the application, the role check and the
\* findFirst of the application's room
PostRoomsFind(user) ==
  /\ client[user].pc = "idle"
  /\ IF ~application.exists
     THEN Emit(user, "404 Application not found")
     ELSE IF ~isParticipant(user)
     THEN Emit(user, "403 Not authorized to create this chat room")
     ELSE IF chatRoom.exists
     THEN Emit(user, "200 existingRoom")
     ELSE client' = [client EXCEPT ![user] =
            [pc |-> "rooms-create", chatRoomId |-> generatedId, emitted |-> "none"]]
  /\ UNCHANGED <<chatRoom, chatMessage, channel>>
  /\ UNCHANGED chatFrame

\* POST /rooms, the create of the room under a generated id
PostRoomsCreate(user) ==
  /\ client[user].pc = "rooms-create"
  /\ IF chatRoom.exists
     THEN /\ Emit(user, "500 Server error")
          /\ UNCHANGED chatRoom
     ELSE /\ chatRoom' = [exists |-> TRUE, id |-> generatedId, createdBy |-> user]
          /\ Emit(user, "201 chatRoom")
  /\ UNCHANGED <<chatMessage, channel>>
  /\ UNCHANGED chatFrame

Next ==
  \/ \E t \in TaskIds, data \in Payloads : Enqueue(t, data)
  \/ \E w \in Workers, t \in TaskIds : WorkerTake(w, t)
  \/ \E w \in Workers : WorkerCrash(w)
  \/ \E t \in TaskIds : BoardRetry(t)
  \/ \E w \in Workers : ProcessCvParsingFind(w)
  \/ \E w \in Workers : ProcessCvParsingCreate(w)
  \/ \E w \in Workers : ProcessCvParsingReturn(w)
  \/ \E w \in Workers : processCoverLetterGeneration(w)
  \/ \E w \in Workers : processJobMatching(w)
  \/ \E h \in handlers : OnCompletedStatus(h)
  \/ \E h \in handlers : OnCompletedFanOut(h)
  \/ \E h \in handlers : OnFailed(h)
  \/ DeleteJobApplications
  \/ DeleteJobPosting

Spec == Init /\ [][Next]_vars

\* the payload of a CV_PARSE task
CvPayload == [type |-> CV_PARSE, dbJobId |-> TRUE, jobPostingId |-> FALSE]

\* a seeker who has uploaded a CV
RouteInit ==
  /\ jobQueue = [t \in TaskIds |-> NoRow]
  /\ jobData = [t \in TaskIds |-> NoData]
  /\ bullState = [t \in TaskIds |-> "none"]
  /\ deliveries = [t \in TaskIds |-> 0]
  /\ workers = [w \in Workers |-> Idle]
  /\ handlers = {}
  /\ seekerProfile = [newProfile EXCEPT !.cvUrl = cvUrlOf("seeker/cv/upload")]
  /\ seekerSkill = <<>>
  /\ jobPosting = "exists"
  /\ application = theApplication
  /\ written = [t \in TaskIds |-> 0]
  /\ cvLog = [done |-> 0, sequential |-> TRUE, afterOnce |-> <<>>, threw |-> FALSE]
  /\ jobTag = <<"react", "aws">>
  /\ analyzeReq = AnalyzeIdle
  /\ editReq = EditIdle
  /\ requests = 0
  /\ response = NoResponse
  /\ DataInit
  /\ CallInit

\* the writers of the seeker's skills: the CV analyze and profile edit routes
\* together with a CV_PARSE task
RouteNext ==
  \/ Enqueue(TaskOrder[1], CvPayload)
  \/ \E w \in Workers, t \in TaskIds : WorkerTake(w, t)
  \/ \E w \in Workers : ProcessCvParsingFind(w)
  \/ \E w \in Workers : ProcessCvParsingCreate(w)
  \/ \E w \in Workers : ProcessCvParsingReturn(w)
  \/ \E h \in handlers : OnCompletedStatus(h)
  \/ \E h \in handlers : OnCompletedFanOut(h)
  \/ \E h \in handlers : OnFailed(h)
  \/ \E configured \in BOOLEAN, reply \in Replies : AnalyzeStart(configured, reply)
  \/ AnalyzePersistText
  \/ AnalyzeFind
  \/ AnalyzeCreate
  \/ \E body \in EditBodies : EditStart(body, "undefined")
  \/ EditDelete
  \/ EditCreate
  \/ EditRespond

RouteSpec == RouteInit /\ [][RouteNext]_vars

\* the upload and cover letter routes next to the queue and DELETE /jobs/:id
UploadNext ==
  \/ \E route \in {"seeker/cv", "seeker/cv/upload"} : UploadCv(route)
  \/ RequestCoverLetter
  \/ \E t \in TaskIds, data \in Payloads : Enqueue(t, data)
  \/ DeleteJobApplications
  \/ DeleteJobPosting

UploadSpec == Init /\ [][UploadNext]_vars

\* the rows a table may hold under its unique index: up to n distinct names
RowsOver(names, n) ==
  UNION {{rows \in [1 .. k -> names] :
            \A i, j \in 1 .. k : i # j => rows[i] # rows[j]} : k \in 0 .. n}

\* a posting with n tags of which the first is react
TagsOfSize(n) ==
  <<"react">> \o SubSeq(SelectSeq(commonSkills, LAMBDA name : name # "react"), 1, n - 1)
\* the numbers of tags of the other postings: with one matching tag a posting
\* of 12 tags scores 8.33 and one of 13 tags 7.69
PostingSizes == {1, 12, 13}
otherPosting(id, n) ==
  [id |-> id, tags |-> TagsOfSize(n), requirements |-> thePosting.requirements,
   description |-> thePosting.description, location |-> thePosting.location]
OtherPostings ==
  {<<>>} \cup {<<otherPosting("j2", a)>> : a \in PostingSizes}
         \cup {<<otherPosting("j2", a), otherPosting("j3", b)>> : a, b \in PostingSizes}

\* the recommendation functions applied to every seeker and posting
MatchInit ==
  /\ jobQueue = [t \in TaskIds |-> NoRow]
  /\ jobData = [t \in TaskIds |-> NoData]
  /\ bullState = [t \in TaskIds |-> "none"]
  /\ deliveries = [t \in TaskIds |-> 0]
  /\ workers = [w \in Workers |-> Idle]
  /\ handlers = {}
  /\ seekerProfile = newProfile
  /\ seekerSkill \in RowsOver(SkillNames, MaxSeekerSkills)
  /\ jobPosting = "exists"
  /\ application = theApplication
  /\ written = [t \in TaskIds |-> 0]
  /\ cvLog = [done |-> 0, sequential |-> TRUE, afterOnce |-> <<>>, threw |-> FALSE]
  /\ jobTag \in RowsOver(TagNames, MaxTags)
  /\ analyzeReq = AnalyzeIdle
  /\ editReq = EditIdle
  /\ requests = 0
  /\ response = NoResponse
  /\ posting = thePosting
  /\ employerProfile = theEmployer
  /\ matchLog = {}
  /\ otherPostings \in OtherPostings
  /\ CallInit

MatchNext ==
  \/ GetJobRecommendations
  \/ MatchingSeeker

MatchSpec == MatchInit /\ [][MatchNext]_vars

\* the skill extraction on its own: one call of either function on a text
ExtractWords == {"Kubernetes", "DOCKER", "Machine", "Learning", "go", "Sql"}
RECURSIVE joinWords(_)
joinWords(words) ==
  IF Len(words) = 0 THEN ""
  ELSE IF Len(words) = 1 THEN words[1]
  ELSE words[1] \o " " \o joinWords(Tail(words))
GivenTexts ==
  {undefined}
    \cup {jsText(t) : t \in {scenarioText, sampleCvText, aiText, placeholderText}}
    \cup {jsText(joinWords(ws)) :
            ws \in UNION {[1 .. n -> ExtractWords] : n \in 0 .. MaxWords}}

\* the state before any task, request or call
StartOfAll ==
  /\ jobQueue = [t \in TaskIds |-> NoRow]
  /\ jobData = [t \in TaskIds |-> NoData]
  /\ bullState = [t \in TaskIds |-> "none"]
  /\ deliveries = [t \in TaskIds |-> 0]
  /\ workers = [w \in Workers |-> Idle]
  /\ handlers = {}
  /\ jobPosting = "exists"
  /\ written = [t \in TaskIds |-> 0]
  /\ cvLog = [done |-> 0, sequential |-> TRUE, afterOnce |-> <<>>, threw |-> FALSE]
  /\ analyzeReq = AnalyzeIdle
  /\ editReq = EditIdle
  /\ requests = 0
  /\ response = NoResponse
  /\ matchLog = {}
  /\ otherPostings = <<>>
  /\ submitReq = [r \in Submissions |-> SubmitIdle]
  /\ chatMessage = <<>>
  /\ channel = {}
  /\ client = [u \in Users |-> ClientIdle]

ExtractInit ==
  /\ StartOfAll
  /\ seekerProfile = newProfile
  /\ seekerSkill = <<>>
  /\ application = theApplication
  /\ jobTag = <<"react", "aws">>
  /\ posting = thePosting
  /\ employerProfile = theEmployer
  /\ chatRoom = NoChatRoom
  /\ extraction \in {[NoExtraction EXCEPT !.text = t] : t \in GivenTexts}

ExtractNext ==
  \/ ExtractSkillsFromText
  \/ RouteExtractSkillsFromText

ExtractSpec == ExtractInit /\ [][ExtractNext]_vars

\* the submissions of one seeker for one posting, next to DELETE /jobs/:id
ApplyInit ==
  /\ StartOfAll
  /\ seekerProfile = newProfile
  /\ seekerSkill = <<>>
  /\ application \in {noApplication, theApplication}
  /\ jobTag = <<"react", "aws">>
  /\ posting = thePosting
  /\ employerProfile = theEmployer
  /\ chatRoom = NoChatRoom
  /\ extraction = NoExtraction

ApplyNext ==
  \/ \E r \in Submissions, user \in Users : SubmitStart(r, user)
  \/ \E r \in Submissions : SubmitFindJob(r)
  \/ \E r \in Submissions : SubmitFindApplication(r)
  \/ \E r \in Submissions : SubmitCreate(r)
  \/ DeleteJobApplications
  \/ DeleteJobPosting

ApplySpec == ApplyInit /\ [][ApplyNext]_vars

\* the chat of one application: the socket events and POST /rooms of its
\* seeker, its employer and a third user
ChatInit ==
  /\ StartOfAll
  /\ seekerProfile = newProfile
  /\ seekerSkill = <<>>
  /\ application = theApplication
  /\ jobTag = <<"react", "aws">>
  /\ posting = thePosting
  /\ employerProfile = theEmployer
  /\ chatRoom = NoChatRoom
  /\ extraction = NoExtraction

ChatNext ==
  \/ \E user \in Users, id \in ChatRoomIds : JoinChatFind(user, id)
  \/ \E user \in Users : JoinChatFindApplication(user)
  \/ \E user \in Users : JoinChatCreate(user)
  \/ \E user \in Users : JoinChatCheck(user)
  \/ \E user \in Users, id \in ChatRoomIds : SendMessageFind(user, id)
  \/ \E user \in Users : SendMessageCreate(user)
  \/ \E user \in Users : PostRoomsFind(user)
  \/ \E user \in Users : PostRoomsCreate(user)

ChatSpec == ChatInit /\ [][ChatNext]_vars

\* one COVER_LETTER task for the profiles and postings of ComposeInit
CoverLetterPayload == [type |-> COVER_LETTER, dbJobId |-> TRUE, jobPostingId |-> TRUE]
FirstNames == {"Ada", ""}
LastNames == {"Lovelace", "King Noel"}
Titles == {"Frontend Engineer", "QA"}
EmployerProfiles ==
  {[exists |-> FALSE, companyName |-> ""], [exists |-> TRUE, companyName |-> ""],
   theEmployer}

ComposeInit ==
  /\ StartOfAll
  /\ seekerProfile \in {[newProfile EXCEPT !.firstName = first, !.lastName = last] :
                          first \in FirstNames, last \in LastNames}
  /\ seekerSkill \in {<<>>, <<"react", "sql">>}
  /\ application = theApplication
  /\ jobTag = <<"react", "aws">>
  /\ posting \in {[thePosting EXCEPT !.title = title] : title \in Titles}
  /\ employerProfile \in EmployerProfiles
  /\ chatRoom = NoChatRoom
  /\ extraction = NoExtraction

ComposeNext ==
  \/ Enqueue(TaskOrder[1], CoverLetterPayload)
  \/ \E w \in Workers, t \in TaskIds : WorkerTake(w, t)
  \/ \E w \in Workers : processCoverLetterGeneration(w)
  \/ \E h \in handlers : OnCompletedStatus(h)
  \/ \E h \in handlers : OnCompletedFanOut(h)
  \/ \E h \in handlers : OnFailed(h)
  \/ DeleteJobApplications
  \/ DeleteJobPosting

ComposeSpec == ComposeInit /\ [][ComposeNext]_vars

\* the match scorer of the processors: MATCH tasks for the seeker while a
\* CV_PARSE task, a profile edit and an update of the posting change the
\* stored state between the runs
Locations == {"Remote"}
MatchPayload == [type |-> MATCH, dbJobId |-> TRUE, jobPostingId |-> TRUE]
ScoreSkills == {<<"React", "react", "python">>}
ScoreRequirements == {"React and Node.js"}

ScoreInit ==
  /\ StartOfAll
  /\ seekerProfile = newProfile
  /\ seekerSkill \in ScoreSkills
  /\ application = theApplication
  /\ jobTag = <<"react", "aws">>
  /\ posting \in {[thePosting EXCEPT !.requirements = text] : text \in ScoreRequirements}
  /\ employerProfile = theEmployer
  /\ chatRoom = NoChatRoom
  /\ extraction = NoExtraction

ScoreNext ==
  \/ Enqueue(TaskOrder[1], MatchPayload)
  \/ Enqueue(TaskOrder[2], CvPayload)
  \/ \E w \in Workers, t \in TaskIds : WorkerTake(w, t)
  \/ BoardRetry(TaskOrder[1])
  \/ \E w \in Workers : ProcessCvParsingFind(w)
  \/ \E w \in Workers : ProcessCvParsingCreate(w)
  \/ \E w \in Workers : ProcessCvParsingReturn(w)
  \/ \E w \in Workers : processJobMatching(w)
  \/ \E h \in handlers : OnCompletedStatus(h)
  \/ \E h \in handlers : OnCompletedFanOut(h)
  \/ \E location \in Locations : EditStart(undefined, location)
  \/ EditRespond
  \/ \E location \in Locations : UpdateJob(location)

ScoreSpec == ScoreInit /\ [][ScoreNext]_vars

\* ------------------------------------------------------------------ claims
HasRow(t) == jobQueue[t].status # ABSENT

\* C1: once a task's status record holds COMPLETED or FAILED, no later step
\* changes its status or its result
C1_TerminalIsFinal ==
  [][\A t \in TaskIds :
       jobQueue[t].status \in Terminal => jobQueue'[t] = jobQueue[t]]_vars

\* C2: while a worker runs the processor of a task, the task's status record
\* reads RUNNING (it was set when the worker took the task)
C2_RunningWhileProcessed ==
  \A w \in Workers :
    (workers[w].job # NoJob /\ HasRow(workers[w].job))
      => jobQueue[workers[w].job].status = RUNNING

\* C3: a task makes at most one transition into a terminal status
C3_OneTerminalTransition ==
  \A t \in TaskIds : written[t] <= 1

\* C4: when the 'completed' handler has written the status record of a task, the
\* record reads COMPLETED and its result is the JSON text of the value the
\* processor returned
C4_CompletedRecorded ==
  [][\A h \in handlers :
       (OnCompletedStatus(h) /\ writesStatus(jobData[h.job]))
         => jobQueue'[h.job] =
              [status |-> COMPLETED, result |-> JSONstringify(h.result)]]_vars

C4_Witness ==
  \E t \in TaskIds : jobQueue[t].status = COMPLETED /\ written[t] = 1

ThrowStep(w) ==
  /\ workers[w].job # NoJob
  /\ bullState[workers[w].job] = "active"
  /\ bullState'[workers[w].job] = "failed"

\* C5: a processor's exception ends in the worker's 'failed' event and changes
\* no record; the 'failed' handler sets the status record to FAILED with the
\* JSON text of {error: message}
C5_FailureRecorded ==
  [][/\ \A h \in handlers :
          (OnFailed(h) /\ writesStatus(jobData[h.job]))
            => jobQueue'[h.job] =
                 [status |-> FAILED,
                  result |-> JSONstringify([error |-> h.error.message])]
     /\ \A w \in Workers :
          ThrowStep(w)
            => /\ \E h \in handlers' \ handlers :
                    h.event = "failed" /\ h.job = workers[w].job
               /\ workers'[w] = Idle
               /\ UNCHANGED <<jobQueue, jobData, seekerProfile, seekerSkill,
                              jobPosting, application>>]_vars

C5_Witness ==
  \E t \in TaskIds : jobQueue[t].status = FAILED /\ written[t] = 1

C7_FanOut ==
  [][\A h \in handlers :
       OnCompletedFanOut(h)
         => /\ jobData[h.job].type = CV_PARSE
                 => seekerProfile'.parsedCvText = h.result.parsedText
            /\ (jobData[h.job].type = COVER_LETTER /\ application.exists)
                 => application'.coverLetter = h.result.coverLetter]_vars

C7_Witness ==
  /\ seekerProfile.parsedCvText = sampleCvText
  /\ application.exists
  /\ application.coverLetter # userLetter

\* C8: whenever a CV_PARSE or COVER_LETTER task reads COMPLETED, the profile's
\* parsedCvText or the application's coverLetter holds the task's result
C8_AtomicCompletion ==
  \A t \in TaskIds :
    jobQueue[t].status = COMPLETED
      => /\ jobData[t].type = CV_PARSE
              => seekerProfile.parsedCvText = JSONparse(jobQueue[t].result).parsedText
         /\ jobData[t].type = COVER_LETTER
              => /\ application.exists
                 /\ application.coverLetter = JSONparse(jobQueue[t].result).coverLetter

ProcessorStep(w) ==
  \/ ProcessCvParsingFind(w)
  \/ ProcessCvParsingCreate(w)
  \/ ProcessCvParsingReturn(w)
  \/ processCoverLetterGeneration(w)
  \/ processJobMatching(w)

\* C9 as stated: no step of a processor and no step of a 'failed' handler
\* changes the profile, its skills, the job posting or the application
C9_ProcessorsPure ==
  [][/\ \A w \in Workers :
          ProcessorStep(w)
            => UNCHANGED <<seekerProfile, seekerSkill, jobPosting, application>>
     /\ \A h \in handlers :
          OnFailed(h)
            => UNCHANGED <<seekerProfile, seekerSkill, jobPosting, application>>]_vars

\* C9 as amended: no step of a processor changes the profile, the job posting
\* or the application; the cover letter and job matching processors leave the
\* skills alone; a step of processCvParsing changes the skills only by adding
\* one extracted skill that was not stored; the 'failed' handlers change none
\* of these records
C9_ProcessorWrites ==
  [][/\ \A w \in Workers :
          ProcessorStep(w)
            => /\ UNCHANGED <<seekerProfile, jobPosting, application>>
               /\ \/ seekerSkill' = seekerSkill
                  \/ /\ jobData[workers[w].job].type = CV_PARSE
                     /\ \E k \in 1 .. Len(extractedSkills) :
                          /\ extractedSkills[k] \notin SeekerSkillNames
                          /\ seekerSkill' = Append(seekerSkill, extractedSkills[k])
     /\ \A h \in handlers :
          OnFailed(h)
            => UNCHANGED <<seekerProfile, seekerSkill, jobPosting, application>>]_vars

C9_Witness ==
  /\ seekerSkill # <<>>
  /\ seekerProfile.parsedCvText = NULL
  /\ \E t \in TaskIds : jobData[t].type = CV_PARSE /\ jobQueue[t].status = FAILED

\* C10: when the CV_PARSE processor has run to its end twice or more, one run
\* after the other, the profile's skill rows are the rows there were after the
\* first of these runs (same names, same number), and no later run failed on a
\* skill that was stored already
C10_CvParseIdempotent ==
  (cvLog.done >= 2 /\ cvLog.sequential)
    => (seekerSkill = cvLog.afterOnce /\ ~cvLog.threw)

C10_Witness ==
  /\ cvLog.done >= 2
  /\ cvLog.sequential
  /\ Len(seekerSkill) = Len(extractedSkills)

UniqueConstraintFailed == "Unique constraint failed"

\* C11: when two executions that insert skills for the same profile interleave
\* their find-then-create steps, neither fails because the other inserted a
\* skill first: no processor ends in the unique index's error
C11_ConcurrentInsertNeverFails ==
  \A h \in handlers :
    h.event = "failed" => h.error.message # UniqueConstraintFailed

\* C12: every stored skill name of the profile is lower-case, and no two stored
\* skills are equal when compared case-insensitively
C12_SkillSetLowerCaseUnique ==
  /\ \A k \in 1 .. Len(seekerSkill) : toLowerCase(seekerSkill[k]) = seekerSkill[k]
  /\ \A j, k \in 1 .. Len(seekerSkill) :
       j # k => toLowerCase(seekerSkill[j]) # toLowerCase(seekerSkill[k])

\* a step of a CV_PARSE execution or of a CV analyze request
ExtractionStep ==
  \/ \E w \in Workers : ProcessCvParsingFind(w)
  \/ \E w \in Workers : ProcessCvParsingCreate(w)
  \/ \E w \in Workers : ProcessCvParsingReturn(w)
  \/ \E configured \in BOOLEAN, reply \in Replies : AnalyzeStart(configured, reply)
  \/ AnalyzePersistText
  \/ AnalyzeFind
  \/ AnalyzeCreate

\* C13: a step of a CV_PARSE execution or of a CV analyze request deletes and
\* renames no stored skill: it leaves the skill rows as they are or adds one
\* row, whose name was not stored before
C13_ExtractionOnlyAdds ==
  [][ExtractionStep
       => \/ seekerSkill' = seekerSkill
          \/ /\ Len(seekerSkill') = Len(seekerSkill) + 1
             /\ SubSeq(seekerSkill', 1, Len(seekerSkill)) = seekerSkill
             /\ seekerSkill'[Len(seekerSkill')] \notin SeekerSkillNames]_vars

\* the CV_PARSE task stored javascript and react; a CV analyze request that
\* fell back to the text's python and react then added python only
C13_Witness ==
  /\ seekerSkill = <<"javascript", "react", "python">>
  /\ response.route = "analyze"
  /\ response.status = 200
  /\ response.body.extractedSkills = array(<<"react", "python">>)

\* C14: a CV analyze request whose call of the configured analysis service
\* failed (network error, non-JSON body, no parsedText, extractedSkills/skills
\* missing or not an array) falls back to the local extraction and is answered
\* 200 with parsedText and extractedSkills
C14_ServiceFailureFallsBack ==
  [][(analyzeReq.callFailed /\ analyzeReq' = AnalyzeIdle)
       => (response'.route = "analyze" /\ response'.status = 200 /\ analyzeReq.fellBack)]_vars

\* the payload of the task worker w runs names a record that is gone
StalePayload(w) ==
  \/ jobData[workers[w].job].type = COVER_LETTER /\ ~application.exists
  \/ jobData[workers[w].job].jobPostingId /\ ~jobPostingFound

\* C15: a COVER_LETTER or MATCH processor that runs when the job posting or the
\* application of its payload no longer exists throws, so that the task ends
\* FAILED and not COMPLETED
C15_StalePayloadFails ==
  [][\A w \in Workers :
       ((processCoverLetterGeneration(w) \/ processJobMatching(w)) /\ StalePayload(w))
         => bullState'[workers[w].job] = "failed"]_vars

\* C16: a step of the MATCH processor changes no record at all; the handlers
\* of a MATCH task change no profile, skill, posting, tag or application and no
\* status record but the task's own, and start no second update
C16_MatchWritesOnlyStatus ==
  [][/\ \A w \in Workers :
          processJobMatching(w)
            => UNCHANGED <<jobQueue, seekerProfile, seekerSkill, jobPosting,
                           jobTag, application>>
     /\ \A h \in handlers :
          ((OnCompletedStatus(h) \/ OnFailed(h)) /\ jobData[h.job].type = MATCH)
            => /\ UNCHANGED <<seekerProfile, seekerSkill, jobPosting, jobTag,
                              application>>
               /\ \A t \in TaskIds \ {h.job} : jobQueue'[t] = jobQueue[t]
               /\ handlers' = handlers \ {h}]_vars

\* one MATCH task has completed and one has failed
C16_Witness ==
  /\ \E t \in TaskIds : jobData[t].type = MATCH /\ jobQueue[t].status = COMPLETED
  /\ \E t \in TaskIds : jobData[t].type = MATCH /\ jobQueue[t].status = FAILED

\* C17: every task that a worker has finished processing, and whose event
\* handler has run, has a status record that reads COMPLETED or FAILED
C17_StatusForEveryTask ==
  \A t \in TaskIds :
    (bullState[t] \in {"completed", "failed"} /\ ~\E h \in handlers : h.job = t)
      => jobQueue[t].status \in Terminal

\* does the step put a new task of the type in PENDING
Enqueues(type) ==
  \E t \in TaskIds :
    /\ jobQueue[t].status = ABSENT
    /\ jobQueue'[t].status = PENDING
    /\ jobData'[t].type = type

\* C18: a successful upload of a CV enqueues a CV_PARSE task in PENDING, and a
\* cover letter request that is answered with status PENDING enqueues a
\* COVER_LETTER task in PENDING
C18_RoutesEnqueue ==
  [][/\ \A route \in {"seeker/cv", "seeker/cv/upload"} :
          UploadCv(route) => Enqueues(CV_PARSE)
     /\ (RequestCoverLetter /\ response'.status = 200) => Enqueues(COVER_LETTER)]_vars

\* Algorithm A as stated: the normalized tag set, the tags of it that are in the
\* SkillSet, and the rounded share
tagSet(tags) == {toLowerCase(tags[k]) : k \in 1 .. Len(tags)}
skillSet(skills) == {skills[k] : k \in 1 .. Len(skills)}
matchingSet(skills, tags) == tagSet(tags) \cap skillSet(skills)
scoreA(skills, tags) ==
  IF tagSet(tags) = {} THEN 0
  ELSE MathRound(100 * Cardinality(matchingSet(skills, tags)), Cardinality(tagSet(tags)))

\* the tags of the posting id
tagsOf(id) == (CHOOSE job \in {jobPostings[k] : k \in 1 .. Len(jobPostings)} : job.id = id).tags

\* C19: every entry getJobRecommendations returns carries the score of Algorithm
\* A, an integer in 0..100, and as matchingSkills the tags that are in the
\* SkillSet
C19_AlgorithmA ==
  response.route = "getJobRecommendations"
    => \A k \in 1 .. Len(response.body.jobs) :
         LET entry == response.body.jobs[k]
         IN /\ entry.matchScore \in 0 .. 100
            /\ entry.matchScore = scoreA(seekerSkill, tagsOf(entry.id))
            /\ skillSet(entry.matchingSkills) = matchingSet(seekerSkill, tagsOf(entry.id))

\* C20: the entry GET /matching/seeker returns carries the score of Algorithm A
\* and as matchingSkills the tags that are in the SkillSet
C20_SeekerListUsesAlgorithmA ==
  response.route = "matching/seeker"
    => /\ response.body.matchScore = scoreA(seekerSkill, jobTag)
       /\ skillSet(response.body.matchingSkills) = matchingSet(seekerSkill, jobTag)

\* the names of a list of skills
namesOf(skills) == {skills[k] : k \in 1 .. Len(skills)}
vocabularySet == namesOf(commonSkills)
\* the text of a given text value, the undefined text read as the empty one
textOf(text) == IF text.kind = "undefined" THEN "" ELSE text.text
\* the result of the function that made the call, for another text
sameFunction(text) ==
  IF extraction.by = "processor" THEN extractSkillsFromText(text)
  ELSE routeExtractSkillsFromText(text)

C25_ScenarioTwoSkills ==
  (extraction.by # "none" /\ extraction.text = jsText(scenarioText)) =>
    /\ ~extraction.result.threw
    /\ namesOf(extraction.result.skills) = {"kubernetes", "docker"}

\* C25, amended: for the text "Experienced with Kubernetes and Docker" the
\* extraction returns exactly docker, kubernetes and r, the vocabulary entry
\* "r" being a substring of the lower-cased text.
C25_ScenarioWithR ==
  (extraction.by # "none" /\ extraction.text = jsText(scenarioText)) =>
    /\ ~extraction.result.threw
    /\ namesOf(extraction.result.skills) = {"kubernetes", "docker", "r"}

C25_Witness ==
  /\ extraction.by = "processor"
  /\ extraction.text = jsText(scenarioText)
  /\ extraction.result.skills = <<"docker", "kubernetes", "r">>

\* the skill list of the analysis service's answer
ServiceSkills(reply) ==
  IF isArray(reply.extractedSkills) THEN reply.extractedSkills ELSE reply.skills
\* the service answered with a JSON body that carries a non-empty list of skills
ServiceGaveSkills(reply) ==
  /\ reply.fetch = "ok"
  /\ reply.json
  /\ isArray(ServiceSkills(reply))
  /\ Len(ServiceSkills(reply).items) > 0
\* the answer is complete: a non-empty parsedText and a non-empty extractedSkills
ServiceComplete(reply) ==
  /\ ServiceGaveSkills(reply)
  /\ isArray(reply.extractedSkills)
  /\ reply.parsedText # emptyText

\* C27: a CV analyze request uses the configured service's answer exactly when
\* it is complete: then the service's parsedText and extractedSkills are what
\* the request persists and returns; it falls back to the local extraction
\* only when the answer is not complete; and a non-empty skill list of the
\* service is never replaced by the skills extracted from the placeholder text.
C27_ServiceAnswerUsed ==
  [][/\ \A configured \in BOOLEAN, reply \in Replies :
          (AnalyzeStart(configured, reply) /\ seekerProfile.cvUrl # NULL) =>
            /\ (configured /\ ServiceComplete(reply)) =>
                 /\ analyzeReq'.parsedText = reply.parsedText
                 /\ analyzeReq'.skills = reply.extractedSkills
            /\ analyzeReq'.fellBack => ~(configured /\ ServiceComplete(reply))
            /\ (configured /\ ServiceGaveSkills(reply)) =>
                 analyzeReq'.skills = ServiceSkills(reply)
     /\ AnalyzePersistText => seekerProfile'.parsedCvText = analyzeReq.parsedText
     /\ (analyzeReq.pc # "idle" /\ analyzeReq' = AnalyzeIdle /\ response'.status = 200) =>
          response'.body = [parsedText |-> analyzeReq.parsedText,
                            extractedSkills |-> analyzeReq.skills]]_vars

\* C29: when PUT /seeker/profile with a skills list L returns, it returns 200
\* and the profile's SkillSet is exactly the set of the trimmed names of L,
\* whatever a concurrent CV_PARSE task or CV analyze request inserted before.
C29_EditReplacesSkillSet ==
  [][(EditRespond /\ editReq.replace) =>
       /\ response'.status = 200
       /\ namesOf(seekerSkill') = {trim(name) : name \in namesOf(editReq.skills)} \ {""}]_vars

\* C28: whatever the interleaving of the submissions of one seeker for one
\* job, at most one Application row exists for the pair, and a submission
\* never creates a row when one exists: it is answered 400.
C28_OneApplicationPerPair ==
  /\ [](application.rows <= 1)
  /\ [][\A r \in Submissions :
          (SubmitCreate(r) /\ application.rows > 0) => submitReq'[r].status = 400]_vars

\* C30: a user who is neither the seeker nor the employer of the application
\* never causes the application's ChatRoom row to be created, is never in the
\* room's channel, and is the sender of no Message row of the room.
C30_ChatAccessControl ==
  /\ chatRoom.exists => isParticipant(chatRoom.createdBy)
  /\ \A user \in channel : isParticipant(user)
  /\ \A k \in 1 .. Len(chatMessage) : isParticipant(chatMessage[k])

\* the letters the processor returned in this step
ReturnedLetters == {h.result.coverLetter : h \in handlers' \ handlers}

\* C26: for an existing seeker profile and job posting a run of
\* processCoverLetterGeneration returns, and the text it returns is not empty
\* and contains the job title and the candidate's first and last name, joined
\* by a blank, verbatim; when the employer has no profile or no company name
\* the text names the placeholder "Company".
C26_LetterComposition ==
  [][\A w \in Workers :
       (processCoverLetterGeneration(w) /\ jobPostingFound) =>
         /\ bullState'[workers[w].job] = "completed"
         /\ ReturnedLetters # {}
         /\ \A letter \in ReturnedLetters :
              /\ letter # ""
              /\ includes(letter, posting.title)
              /\ includes(letter, seekerProfile.firstName \o " " \o seekerProfile.lastName)
              /\ (~employerProfile.exists \/ employerProfile.companyName = "")
                   => includes(letter, "Hiring Manager at Company,")]_vars

C26_Witness ==
  /\ ~employerProfile.exists
  /\ seekerProfile.lastName = "King Noel"
  /\ \E t \in TaskIds :
       /\ jobQueue[t].status = COMPLETED
       /\ includes(JSONparse(jobQueue[t].result).coverLetter, "Hiring Manager at Company,")

\* the score of Algorithm B for the SkillSet of the rows skills
scoreB(skills, requirements, description) ==
  LET text == toLowerCase(orEmpty(requirements) \o " " \o orEmpty(description))
      S == {toLowerCase(skills[k]) : k \in 1 .. Len(skills)}
      matching == {s \in S : includes(text, s)}
  IN MathRound(100 * Cardinality(matching), IF S = {} THEN 1 ELSE Cardinality(S))

\* C22: every score calculateJobMatch returned is an integer in 0..100 and is
\* round(100 * |{s in S : lower(requirements + ' ' + description) contains s}|
\* / max(1, |S|)) for the SkillSet S of the seeker, 0 for an empty S, also for
\* a posting without requirements.
C22_AlgorithmB ==
  \A call \in matchLog :
    /\ call.score \in 0 .. 100
    /\ call.score = scoreB(call.skills, call.requirements, call.description)
    /\ call.skills = <<>> => call.score = 0

\* C23: two calls of calculateJobMatch for the same skills and the same
\* requirements and description of the job returned the same score, whatever
\* the parsedCvText and the locations were at each call and whatever was
\* computed or stored in between.
C23_ScoreDeterministic ==
  \A a, b \in matchLog :
    (/\ a.skills = b.skills
     /\ a.requirements = b.requirements
     /\ a.description = b.description) => a.score = b.score

C23_Witness ==
  \E a, b \in matchLog :
    /\ a.skills = b.skills
    /\ a.skills # <<>>
    /\ a.requirements = b.requirements
    /\ a.description = b.description
    /\ a.parsedCvText # b.parsedCvText
    /\ a.seekerLocation # b.seekerLocation
    /\ a.jobLocation # b.jobLocation
    /\ a.score = b.score
    /\ a.score > 0

\* where the posting id stands in the list findMany gave
placeOf(id) == CHOOSE k \in 1 .. Len(jobPostings) : jobPostings[k].id = id

\* C21: the list getJobRecommendations returns is in non-increasing order of
\* the reported score, and two postings with the same reported score stand in
\* the order they had in the list of postings.
C21_RankingStable ==
  response.route = "getJobRecommendations"
    => \A i, j \in 1 .. Len(response.body.jobs) :
         i < j =>
           LET first == response.body.jobs[i]
               second == response.body.jobs[j]
           IN /\ first.matchScore >= second.matchScore
              /\ first.matchScore = second.matchScore
                   => placeOf(first.id) < placeOf(second.id)

====
